---- MODULE Spec2Model ----
(***************************************************************************)
(* A model of pySYD's utilities (src/pysyd/utils.py):                      *)
(*   - the numerical helpers max_elements, return_max and _bin_data,        *)
(*   - the result aggregator scrape_output with _sort_table,                *)
(*   - the per-star artifacts written by _save_estimates and                *)
(*     _save_parameters, and scrape_output on them,                         *)
(*   - the prompt loop _ask_int,                                            *)
(*   - saving without overwriting (_save_file, _get_next),                  *)
(*   - the construction of the Parameters container.                        *)
(* Each component has its own variables and its own specification; a        *)
(* specification leaves the variables of the other components idle.         *)
(*                                                                          *)
(* Conventions.  Python's None is the empty tuple <<>> and a present value  *)
(* v is <<v>>.  Abscissae (x, exp_dnu) are in tenths, so 3.2 is 32.         *)
(* Gaussian weights are in units of 1e-8.                                   *)
(***************************************************************************)
EXTENDS Integers, Sequences, FiniteSets, TLC

VARIABLES
    me_pc, me_in, me_out,      \* max_elements: position, arguments, result
    rm_pc, rm_in, rm_out,      \* return_max: position, arguments, result
    bd_pc, bd_in, bd_out,      \* _bin_data: position, arguments, result or exception
    sort_one, sort_two,        \* _sort_table: its default lists one=[] and two=[]
    st_calls, st_in, st_out,   \* _sort_table: calls made, last argument, last result
    fs_est, fs_glob,           \* stars with an estimates*csv / a global*csv artifact
    sc_calls, sc_err,          \* scrape_output: calls made, exception of the last call
    est_table, glob_table,     \* outdir/estimates.csv and outdir/global.csv
    p_pc, p_in,                \* Parameters(args, stars): position, arguments and files
    params, constants,         \* self.params and self.constants
    made_dirs, p_err,          \* directories made, exception raised by the constructor
    p_runs, params_prev,       \* constructions made, self.params of the one before
    platform, now,             \* the operating system, the file system's clock
    files, ar_saves,           \* the artifacts in the star directories, saves made
    ar_calls, ar_err, ar_read, \* scrape_output on them: calls, exception, files read
    ar_est, ar_glob,           \* the ensemble tables it wrote
    ai_pc, ai_in,              \* _ask_int: position, arguments
    ai_count, ai_special,      \* its locals count and special
    ai_answers, ai_out,        \* the lines read so far with the mode each met, the result
    sv_fs,         \* the directory: file name -> the write that made its content
    sv_writes,     \* number of files written so far
    sv_last        \* the last save: [fn, overwrite, wrote]

me_vars == <<me_pc, me_in, me_out>>
rm_vars == <<rm_pc, rm_in, rm_out>>
bd_vars == <<bd_pc, bd_in, bd_out>>
st_vars == <<sort_one, sort_two, st_calls, st_in, st_out>>
sc_vars == <<fs_est, fs_glob, sc_calls, sc_err, est_table, glob_table>>
p_vars == <<p_pc, p_in, params, constants, made_dirs, p_err, p_runs, params_prev>>
ar_vars == <<platform, now, files, ar_saves, ar_calls, ar_err, ar_read, ar_est, ar_glob>>
ai_vars == <<ai_pc, ai_in, ai_count, ai_special, ai_answers, ai_out>>
sv_vars == <<sv_fs, sv_writes, sv_last>>
vars == <<me_vars, rm_vars, bd_vars, st_vars, sc_vars, p_vars, ar_vars, ai_vars, sv_vars>>

(***************************************************************************)
(* Bounds                                                                  *)
(***************************************************************************)
MaxX == 5          \* abscissae are drawn from {10, 20, ..., 10*MaxX}
MaxPeaks == 3      \* npeaks is drawn from 0..MaxPeaks
MaxLenAny == 2     \* length of the unordered series given to return_max

YVals == {0, 1, 3, 5}                 \* ordinates
ExpDnuW == {<<>>, <<40>>, <<50>>}      \* exp_dnu for max_elements
ExpDnuR == {<<>>, <<25>>, <<32>>, <<40>>}  \* exp_dnu for return_max
Distances == {<<>>, <<2>>}             \* distance for max_elements

(***************************************************************************)
(* Generic helpers                                                         *)
(***************************************************************************)
SetMin(S) == CHOOSE m \in S : \A k \in S : m <= k
SetMax(S) == CHOOSE m \in S : \A k \in S : m >= k
Abs(n) == IF n < 0 THEN -n ELSE n

RECURSIVE SortedSeq(_)
\* the ascending sequence of the integers of S
SortedSeq(S) == IF S = {} THEN <<>>
                ELSE <<SetMin(S)>> \o SortedSeq(S \ {SetMin(S)})

Reverse(s) == [i \in 1..Len(s) |-> s[Len(s) + 1 - i]]

\* numpy fancy indexing a[idx] for a sequence idx of (1-based) positions
Take(a, idx) == [i \in 1..Len(idx) |-> a[idx[i]]]

\* strictly increasing abscissae on the grid, with ordinates of equal length
Series == UNION { { [x |-> [i \in 1..Len(SortedSeq(S)) |-> 10 * SortedSeq(S)[i]], y |-> yy] :
                    yy \in [1..Cardinality(S) -> YVals] } : S \in SUBSET (1..MaxX) }

(***************************************************************************)
(* max_elements                                                            *)
(***************************************************************************)
\* exp(-(x-e)^2/(2 sig^2)) / (sig sqrt(2 pi)), sig = 0.35 e / 2.35482,
\* in units of 1e-8, for x and e in tenths
Gauss(x, e) ==
    CASE e = 40 -> (CASE Abs(x - e) = 0  -> 67102661
                      [] Abs(x - e) = 10 -> 16307705
                      [] Abs(x - e) = 20 -> 234073
                      [] Abs(x - e) = 30 -> 198
                      [] OTHER -> 0)
      [] e = 50 -> (CASE Abs(x - e) = 0  -> 53682129
                      [] Abs(x - e) = 10 -> 21709395
                      [] Abs(x - e) = 20 -> 1435825
                      [] Abs(x - e) = 30 -> 15531
                      [] Abs(x - e) = 40 -> 27
                      [] OTHER -> 0)
      [] OTHER -> 0

One == 100000000   \* 1.0 in units of 1e-8

\* weights = ones_like(y), times the Gaussian when exp_dnu is given
Weights(x, exp_dnu) ==
    [i \in 1..Len(x) |-> IF exp_dnu = <<>> THEN One ELSE Gauss(x[i], exp_dnu[1])]

\* scipy.signal.find_peaks without conditions: the midpoint of every maximal
\* plateau that is strictly higher than both neighbours; the first and the
\* last sample are never peaks.  Positions are 1-based, ascending.
LocalMaxima(v) ==
    SortedSeq({ (l + r) \div 2 : <<l, r>> \in
        { p \in (2..Len(v) - 1) \X (2..Len(v) - 1) :
            /\ p[1] <= p[2]
            /\ \A k \in p[1]..p[2] : v[k] = v[p[1]]
            /\ v[p[1] - 1] < v[p[1]]
            /\ v[p[2] + 1] < v[p[1]] } })

RECURSIVE ArgSortFrom(_, _)
\* numpy.argsort on a short array: ascending, ties in position order
ArgSortFrom(v, left) ==
    IF left = {} THEN <<>>
    ELSE LET m == CHOOSE i \in left :
                    \A j \in left : v[i] < v[j] \/ (v[i] = v[j] /\ i <= j)
         IN <<m>> \o ArgSortFrom(v, left \ {m})
ArgSort(v) == ArgSortFrom(v, 1..Len(v))

RECURSIVE SelectByDistance(_, _, _, _, _)
\* scipy's _select_by_peak_distance: from the highest priority down, a kept
\* peak removes every other peak closer than distance.  order is the argsort
\* of the priorities, i the position in order being visited, keep the set of
\* peak numbers still kept.
SelectByDistance(peaks, order, i, keep, distance) ==
    IF i = 0 THEN keep
    ELSE LET j == order[i]
         IN IF j \notin keep
            THEN SelectByDistance(peaks, order, i - 1, keep, distance)
            ELSE SelectByDistance(peaks, order, i - 1,
                    keep \ { k \in keep : k # j /\ Abs(peaks[k] - peaks[j]) < distance },
                    distance)

\* find_peaks(yy) or find_peaks(yy, distance=distance)
FindPeaks(v, distance) ==
    LET peaks == LocalMaxima(v)
    IN IF distance = <<>> THEN peaks
       ELSE LET keep == SelectByDistance(peaks, ArgSort(Take(v, peaks)), Len(peaks),
                                         1..Len(peaks), distance[1])
            IN Take(peaks, SortedSeq(keep))

\* Python's a[-n:] for n >= 0: the last n elements, and the whole of a for n = 0
LastN(a, n) ==
    IF n = 0 \/ n >= Len(a) THEN a
    ELSE SubSeq(a, Len(a) - n + 1, Len(a))

max_elements(x, y, npeaks, distance, exp_dnu) ==
    LET weights   == Weights(x, exp_dnu)
        yy        == [i \in 1..Len(y) |-> y[i] * weights[i]]
        peaks_idx == FindPeaks(yy, distance)
        px        == Take(x, peaks_idx)
        py        == Take(y, peaks_idx)
        s         == ArgSort(py)
    IN [ peaks_x |-> Reverse(LastN(Take(px, s), npeaks)),
         peaks_y |-> Reverse(LastN(Take(py, s), npeaks)),
         weights |-> weights ]

MeIdle == me_pc = "idle" /\ me_in = <<>> /\ me_out = <<>>

MeInit ==
    /\ me_pc = "call"
    /\ me_in \in { [x |-> s.x, y |-> s.y, npeaks |-> n, distance |-> d, exp_dnu |-> e] :
                     s \in Series, n \in 0..MaxPeaks, d \in Distances, e \in ExpDnuW }
    /\ me_out = <<>>

MaxElements ==
    /\ me_pc = "call"
    /\ me_out' = max_elements(me_in.x, me_in.y, me_in.npeaks, me_in.distance, me_in.exp_dnu)
    /\ me_pc' = "done"
    /\ UNCHANGED <<me_in, rm_vars, st_vars, sc_vars, p_vars, bd_vars, ar_vars, ai_vars, sv_vars>>

\* -------------------------------------------------------------------------
\* The position of abscissa value v in the strictly increasing x
PosOf(x, v) == CHOOSE i \in 1..Len(x) : x[i] = v
\* the magnitude max_elements ranks by when exp_dnu is given: y times weight
WeightedAt(in, out, i) ==
    in.y[PosOf(in.x, out.peaks_x[i])] * out.weights[PosOf(in.x, out.peaks_x[i])]
MeExample == [x |-> <<10, 20, 30, 40, 50>>, y |-> <<0, 5, 0, 3, 0>>, npeaks |-> 2,
              distance |-> <<>>, exp_dnu |-> <<>>]

\* C8: the peaks max_elements returns are in descending order of weighted
\* magnitude (y times the Gaussian weight when exp_dnu is given), the
\* magnitudes reported are the unweighted y at the selected positions, and
\* x=[1,2,3,4,5], y=[0,5,0,3,0], npeaks=2 gives x=2 (5) then x=4 (3).
C8_WeightedDescending ==
    me_pc = "done" =>
        /\ \A i \in 1..Len(me_out.peaks_x) - 1 :
              WeightedAt(me_in, me_out, i) >= WeightedAt(me_in, me_out, i + 1)
        /\ Len(me_out.peaks_y) = Len(me_out.peaks_x)
        /\ \A i \in 1..Len(me_out.peaks_x) :
              me_out.peaks_y[i] = me_in.y[PosOf(me_in.x, me_out.peaks_x[i])]
        /\ me_in = MeExample =>
              me_out.peaks_x = <<20, 40>> /\ me_out.peaks_y = <<5, 3>>

\* the number of local maxima max_elements finds in its (weighted) series
NumMaxima(in) ==
    Len(FindPeaks([i \in 1..Len(in.y) |-> in.y[i] * Weights(in.x, in.exp_dnu)[i]],
                  in.distance))

\* C9: for every npeaks >= 0 max_elements returns at most npeaks peaks, all
\* the local maxima when there are fewer than npeaks, and an x list and a
\* y list of the same length.
C9_AtMostNpeaks ==
    me_pc = "done" =>
        /\ Len(me_out.peaks_x) <= me_in.npeaks
        /\ NumMaxima(me_in) < me_in.npeaks => Len(me_out.peaks_x) = NumMaxima(me_in)
        /\ Len(me_out.peaks_x) = Len(me_out.peaks_y)

(***************************************************************************)
(* return_max                                                              *)
(***************************************************************************)
\* list.index(value): the first position holding value
IndexOf(lst, value) == SetMin({ i \in 1..Len(lst) : lst[i] = value })
SeqRange(lst) == { lst[i] : i \in 1..Len(lst) }

\* a return_max that ranks by y even when exp_dnu is given
return_max_ignores_exp_dnu(x, y, exp_dnu) ==
    IF y # <<>>
    THEN LET idx == IndexOf(y, SetMax(SeqRange(y)))
         IN [idx |-> <<idx>>, x |-> <<x[idx]>>, y |-> <<y[idx]>>]
    ELSE [idx |-> <<>>, x |-> <<>>, y |-> <<>>]

\* idx is the 1-based position (Python's idx + 1); a NaN is <<>>
return_max(x, y, exp_dnu) ==
    IF y # <<>>
    THEN LET lst == IF exp_dnu # <<>>
                    THEN [i \in 1..Len(x) |-> Abs(x[i] - exp_dnu[1])]
                    ELSE y
             idx == IF exp_dnu # <<>>
                    THEN IndexOf(lst, SetMin(SeqRange(lst)))
                    ELSE IndexOf(lst, SetMax(SeqRange(lst)))
         IN [idx |-> <<idx>>, x |-> <<x[idx]>>, y |-> <<y[idx]>>]
    ELSE [idx |-> <<>>, x |-> <<>>, y |-> <<>>]

RmIdle == rm_pc = "idle" /\ rm_in = <<>> /\ rm_out = <<>>

\* series whose abscissae are in any order, repeated values included
AnySeries == UNION { { [x |-> xx, y |-> yy] :
                         xx \in [1..n -> {10 * k : k \in 1..MaxX}], yy \in [1..n -> YVals] } :
                     n \in 0..MaxLenAny }

RmInit ==
    /\ rm_pc = "call"
    /\ rm_in \in { [x |-> s.x, y |-> s.y, exp_dnu |-> e] :
                     s \in Series \cup AnySeries, e \in ExpDnuR }
    /\ rm_out = <<>>

ReturnMax ==
    /\ rm_pc = "call"
    /\ rm_out' = return_max(rm_in.x, rm_in.y, rm_in.exp_dnu)
    /\ rm_pc' = "done"
    /\ UNCHANGED <<rm_in, me_vars, st_vars, sc_vars, p_vars, bd_vars, ar_vars, ai_vars, sv_vars>>

RmExample == [x |-> <<10, 20, 30, 40, 50>>, y |-> <<1, 1, 1, 1, 1>>, exp_dnu |-> <<32>>]

\* C10: return_max on a non-empty series returns, with exp_dnu absent, the
\* index of the global maximum of y and, with exp_dnu given, the index of
\* the point whose x is nearest to exp_dnu whatever its y, together with x
\* and y at that index (x=[1,2,3,4,5], y all 1, exp_dnu=3.2: index 2, x=3);
\* on an empty series it returns (None, NaN, NaN).
C10_ReturnMax ==
    rm_pc = "done" =>
        IF rm_in.y = <<>>
        THEN rm_out = [idx |-> <<>>, x |-> <<>>, y |-> <<>>]
        ELSE /\ rm_out.idx # <<>>
             /\ rm_out.idx[1] \in 1..Len(rm_in.y)
             /\ rm_out.x = <<rm_in.x[rm_out.idx[1]]>>
             /\ rm_out.y = <<rm_in.y[rm_out.idx[1]]>>
             /\ rm_in.exp_dnu = <<>> =>
                   \A j \in 1..Len(rm_in.y) : rm_in.y[j] <= rm_in.y[rm_out.idx[1]]
             /\ rm_in.exp_dnu # <<>> =>
                   \A j \in 1..Len(rm_in.x) :
                       Abs(rm_in.x[rm_out.idx[1]] - rm_in.exp_dnu[1])
                           <= Abs(rm_in.x[j] - rm_in.exp_dnu[1])
             /\ rm_in = RmExample => rm_out.idx = <<3>> /\ rm_out.x = <<30>>

\* nearest-match mode has returned a point that is not the highest one
C10_Witness ==
    /\ rm_pc = "done"
    /\ rm_in.exp_dnu = <<32>>
    /\ rm_in.x = <<10, 20, 30, 40, 50>>
    /\ rm_in.y = <<1, 5, 1, 1, 1>>
    /\ rm_out.idx = <<3>>
    /\ rm_out.x = <<30>>

(***************************************************************************)
(* _bin_data                                                               *)
(*                                                                         *)
(* Abscissae and widths are integers here.  A mean or a median is the      *)
(* fraction [n, d] (n/d, not reduced); bin_yerr holds the SQUARE of the    *)
(* standard error, (std/sqrt(k))^2 = (k*sum(y^2) - sum(y)^2) / k^3, so     *)
(* that it stays rational.  With log=True the abscissae are powers of ten  *)
(* and width is in dex, so that log10 is exact.                            *)
(***************************************************************************)
MaxBinX == 4       \* linear abscissae are drawn from 0..MaxBinX
MaxBinLen == 3     \* length of a series given to _bin_data
MaxWidth == 2      \* width is drawn from 1..MaxWidth
MaxExp == 2        \* logarithmic abscissae are drawn from 10^0 .. 10^MaxExp

BinY == {1, 3}
BinModes == {"mean", "median", "gaussian"}   \* the choices of --bm/--mode

Frac(n, d) == [n |-> n, d |-> d]
FracEq(a, b) == a.n * b.d = b.n * a.d

RECURSIVE Pow10(_)
Pow10(k) == IF k = 0 THEN 1 ELSE 10 * Pow10(k - 1)
\* log10 of a power of ten
Log10(v) == CHOOSE k \in 0..(MaxExp + 1) : Pow10(k) = v

RECURSIVE SumSeq(_)
SumSeq(s) == IF s = <<>> THEN 0 ELSE Head(s) + SumSeq(Tail(s))

\* positions of s in ascending order of value (a stable sort)
SortedVals(s) == Take(s, ArgSort(s))

\* a[digitized == i]
Masked(a, digitized, i) == SelectSeq([k \in 1..Len(a) |-> <<a[k], digitized[k]>>],
                                     LAMBDA p : p[2] = i)

MaskedVals(a, digitized, i) ==
    LET m == Masked(a, digitized, i) IN [k \in 1..Len(m) |-> m[k][1]]

Mean(v) == Frac(SumSeq(v), Len(v))

Median(v) ==
    LET srt == SortedVals(v)
        k == Len(v)
    IN IF k % 2 = 1 THEN Frac(srt[(k + 1) \div 2], 1)
       ELSE Frac(srt[k \div 2] + srt[k \div 2 + 1], 2)

\* (v.std()/np.sqrt(len(v)))^2
StdErrSq(v) ==
    LET k == Len(v)
        sq == [i \in 1..k |-> v[i] * v[i]]
    IN Frac(k * SumSeq(sq) - SumSeq(v) * SumSeq(v), k * k * k)

\* bin edges that stop before max(x): np.arange(min(x), max(x), width)
LinearBins_stops_at_max(x, width) ==
    LET mi == SetMin(SeqRange(x))
        ma == SetMax(SeqRange(x))
        K == { k \in 0..(ma - mi + width) : mi + k * width < ma }
    IN [j \in 1..Cardinality(K) |-> mi + (j - 1) * width]

\* np.arange(min(x), max(x)+width, width)
LinearBins(x, width) ==
    LET mi == SetMin(SeqRange(x))
        ma == SetMax(SeqRange(x))
        K == { k \in 0..(ma - mi + width) : mi + k * width < ma + width }
    IN [j \in 1..Cardinality(K) |-> mi + (j - 1) * width]

\* np.digitize(x, bins) for the increasing edges of np.arange
LinearDigitize(x, bins) ==
    [i \in 1..Len(x) |-> Cardinality({ j \in 1..Len(bins) : bins[j] <= x[i] })]

\* no = np.int(np.ceil((ma-mi)/width))
LogNo(x, width) ==
    LET mi == Log10(SetMin(SeqRange(x)))
        ma == Log10(SetMax(SeqRange(x)))
    IN (ma - mi + width - 1) \div width

\* np.digitize(x, np.logspace(mi, mi+(no+1)*width, no)): edge j (from 0) has
\* the exponent mi + j*(no+1)*width/(no-1), compared with log10(x) exactly
LogDigitize(x, width) ==
    LET mi == Log10(SetMin(SeqRange(x)))
        no == LogNo(x, width)
    IN [i \in 1..Len(x) |->
          Cardinality({ j \in 0..(no - 1) :
              IF no = 1 THEN TRUE
              ELSE j * (no + 1) * width <= (Log10(x[i]) - mi) * (no - 1) })]

\* the list comprehensions over range(1, len(bins))
Statistic(stat, v) == CASE stat = "mean" -> Mean(v)
                        [] stat = "median" -> Median(v)
                        [] stat = "stderr" -> StdErrSq(v)

BinReduce(a, x, digitized, nbins, stat) ==
    LET keep == SelectSeq([i \in 1..(IF nbins > 0 THEN nbins - 1 ELSE 0) |-> i],
                          LAMBDA i : Len(Masked(x, digitized, i)) > 0)
    IN [k \in 1..Len(keep) |-> Statistic(stat, MaskedVals(a, digitized, keep[k]))]

Raised(e) == [err |-> e, bin_x |-> <<>>, bin_y |-> <<>>, bin_yerr |-> <<>>]

\* np_int is TRUE when the installed numpy still has the alias np.int
bin_data(x, y, width, log, mode, np_int) ==
    IF x = <<>> THEN Raised("ValueError")
    ELSE IF log /\ ~np_int THEN Raised("AttributeError")
    ELSE LET nbins == IF log THEN LogNo(x, width) ELSE Len(LinearBins(x, width))
             digitized == IF log THEN LogDigitize(x, width)
                          ELSE LinearDigitize(x, LinearBins(x, width))
         IN IF mode = "mean"
            THEN [err |-> "none",
                  bin_x |-> BinReduce(x, x, digitized, nbins, "mean"),
                  bin_y |-> BinReduce(y, x, digitized, nbins, "mean"),
                  bin_yerr |-> BinReduce(y, x, digitized, nbins, "stderr")]
            ELSE IF mode = "median"
            THEN [err |-> "none",
                  bin_x |-> BinReduce(x, x, digitized, nbins, "median"),
                  bin_y |-> BinReduce(y, x, digitized, nbins, "median"),
                  bin_yerr |-> BinReduce(y, x, digitized, nbins, "stderr")]
            ELSE Raised("UnboundLocalError")

BdIdle == bd_pc = "idle" /\ bd_in = <<>> /\ bd_out = <<>>

BdExample == [x |-> <<0, 1, 2, 3, 4, 5>>, y |-> <<1, 2, 3, 4, 5, 6>>, width |-> 2,
              log |-> FALSE, mode |-> "mean"]

BinSeries(X) == UNION { { [x |-> xx, y |-> yy] : xx \in [1..n -> X], yy \in [1..n -> BinY] } :
                        n \in 0..MaxBinLen }

BdInit ==
    /\ bd_pc = "call"
    /\ bd_in \in {BdExample}
            \cup { [x |-> s.x, y |-> s.y, width |-> w, log |-> FALSE, mode |-> m] :
                     s \in BinSeries(0..MaxBinX), w \in 1..MaxWidth, m \in BinModes }
            \cup { [x |-> s.x, y |-> s.y, width |-> w, log |-> TRUE, mode |-> m] :
                     s \in BinSeries({ Pow10(k) : k \in 0..MaxExp }),
                     w \in 1..MaxWidth, m \in BinModes }
    /\ bd_out = <<>>

BinData ==
    /\ bd_pc = "call"
    /\ \E np_int \in BOOLEAN :
          bd_out' = bin_data(bd_in.x, bd_in.y, bd_in.width, bd_in.log, bd_in.mode, np_int)
    /\ bd_pc' = "done"
    /\ UNCHANGED <<bd_in, me_vars, rm_vars, st_vars, sc_vars, p_vars, ar_vars, ai_vars, sv_vars>>

\* -------------------------------------------------------------------------
\* Empty and degenerate series: nothing, one point, a constant series
DegenerateSeries == { [x |-> <<>>, y |-> <<>>], [x |-> <<10>>, y |-> <<1>>],
                      [x |-> <<10, 20>>, y |-> <<1, 1>>],
                      [x |-> <<10, 20, 30>>, y |-> <<0, 0, 0>>] }

DegenerateCalls ==
    /\ me_pc = "call" /\ me_out = <<>>
    /\ me_in \in { [x |-> s.x, y |-> s.y, npeaks |-> 1, distance |-> <<>>, exp_dnu |-> e] :
                     s \in DegenerateSeries, e \in ExpDnuW }
    /\ rm_pc = "call" /\ rm_out = <<>>
    /\ rm_in \in { [x |-> s.x, y |-> s.y, exp_dnu |-> e] :
                     s \in DegenerateSeries, e \in ExpDnuR }
    /\ bd_pc = "call" /\ bd_out = <<>>
    /\ bd_in \in { [x |-> s.x, y |-> s.y, width |-> 1, log |-> FALSE, mode |-> m] :
                     s \in DegenerateSeries, m \in {"mean", "median"} }

\* C11: given an empty or degenerate series none of max_elements, _bin_data
\* and return_max raises; each returns an empty or sentinel (None/NaN) result.
C11_DegenerateNeverRaises ==
    /\ (me_pc = "done" /\ me_in.x = <<>>)
          => (me_out.peaks_x = <<>> /\ me_out.peaks_y = <<>>)
    /\ (rm_pc = "done" /\ rm_in.y = <<>>)
          => rm_out = [idx |-> <<>>, x |-> <<>>, y |-> <<>>]
    /\ bd_pc = "done"
          => (/\ bd_out.err = "none"
              /\ bd_in.x = <<>> => (bd_out.bin_x = <<>> /\ bd_out.bin_y = <<>>
                                       /\ bd_out.bin_yerr = <<>>))

\* the bins of fixed width, counted from min(x), that hold a point; with log
\* the width is in log10(x)
OccupiedBins(in) ==
    LET v == IF in.log THEN [i \in 1..Len(in.x) |-> Log10(in.x[i])] ELSE in.x
        mi == SetMin(SeqRange(v))
    IN { (v[i] - mi) \div in.width : i \in 1..Len(v) }

\* C12: for every non-empty input and every bin mode the command line offers
\* (mean, median, gaussian) _bin_data returns bin-x, bin-y and bin-error of
\* equal length, with one entry per non-empty bin and none for an empty bin.
C12_AlignedBins ==
    (bd_pc = "done" /\ bd_in.x # <<>>) =>
        /\ bd_out.err = "none"
        /\ Len(bd_out.bin_x) = Len(bd_out.bin_y)
        /\ Len(bd_out.bin_y) = Len(bd_out.bin_yerr)
        /\ Len(bd_out.bin_x) = Cardinality(OccupiedBins(bd_in))

Half(k) == Frac(k, 2)
IsPair(out, i, mx, my) == FracEq(out.bin_x[i], mx) /\ FracEq(out.bin_y[i], my)

\* C13 as stated: x=[0,1,2,3,4,5], y=[1,2,3,4,5,6], width=2, mode='mean' gives
\* two non-empty bins, with (mean x, mean y) = (0.5, 1.5) and (2.5, 3.5).
C13_TwoBins ==
    (bd_pc = "done" /\ bd_in = BdExample) =>
        /\ bd_out.err = "none"
        /\ Len(bd_out.bin_x) = 2 /\ Len(bd_out.bin_y) = 2
        /\ IsPair(bd_out, 1, Half(1), Half(3))
        /\ IsPair(bd_out, 2, Half(5), Half(7))

\* C13 amended: the same call gives three non-empty bins, with
\* (mean x, mean y) = (0.5, 1.5), (2.5, 3.5) and (4.5, 5.5).
C13_ThreeBins ==
    (bd_pc = "done" /\ bd_in = BdExample) =>
        /\ bd_out.err = "none"
        /\ Len(bd_out.bin_x) = 3 /\ Len(bd_out.bin_y) = 3 /\ Len(bd_out.bin_yerr) = 3
        /\ IsPair(bd_out, 1, Half(1), Half(3))
        /\ IsPair(bd_out, 2, Half(5), Half(7))
        /\ IsPair(bd_out, 3, Half(9), Half(11))

C13_Witness ==
    /\ bd_pc = "done"
    /\ bd_in = BdExample
    /\ Len(bd_out.bin_x) = 3
    /\ bd_out.bin_x[3] = Frac(9, 2)

\* C26: in linear mode _bin_data loses no data: every input point, those
\* with x = max(x) included, is counted in exactly one output bin, so the
\* per-bin point counts (the denominators of the means) sum to the number
\* of input points.
C26_NoPointLost ==
    (bd_pc = "done" /\ ~bd_in.log /\ bd_in.mode = "mean" /\ bd_in.x # <<>>) =>
        /\ bd_out.err = "none"
        /\ SumSeq([i \in 1..Len(bd_out.bin_x) |-> bd_out.bin_x[i].d]) = Len(bd_in.x)

(***************************************************************************)
(* _ask_int                                                                *)
(*                                                                         *)
(* A line typed by the user is one of Answers.  float() of a line is <<>>  *)
(* when it raises ValueError, else <<v>> with v in tenths; int() of a line *)
(* is <<>> when it raises ValueError, else <<k>>.  The result is <<>> for  *)
(* None, else <<[float, v]>>: an int v, or a float of v tenths.            *)
(***************************************************************************)
MaxTrials == 2     \* n_trials is drawn from 1..MaxTrials
MaxAttempts == 3   \* max_attempts is drawn from 1..MaxAttempts

Answers == {"0", "1", "2", "3", "2.0", "2.5", "abc"}

\* float(answer)
PyFloat(answer) == CASE answer = "0" -> <<0>> [] answer = "1" -> <<10>> [] answer = "2" -> <<20>>
                     [] answer = "3" -> <<30>> [] answer = "2.0" -> <<20>>
                     [] answer = "2.5" -> <<25>> [] OTHER -> <<>>
\* float.is_integer
is_integer(v) == v % 10 = 0
\* int(answer) for a string
PyIntOfStr(answer) == CASE answer = "0" -> <<0>> [] answer = "1" -> <<1>> [] answer = "2" -> <<2>>
                        [] answer = "3" -> <<3>> [] OTHER -> <<>>

\* the body of the loop without the range check on the integer
ask_int_accepts_any_integer(answer, special, n_trials) ==
    IF special
    THEN (IF PyFloat(answer) = <<>> THEN [ret |-> <<>>, special |-> special]
          ELSE [ret |-> <<[float |-> TRUE, v |-> PyFloat(answer)[1]]>>, special |-> special])
    ELSE IF PyFloat(answer) = <<>> THEN [ret |-> <<>>, special |-> special]
    ELSE IF is_integer(PyFloat(answer)[1])
    THEN (IF PyIntOfStr(answer) = <<>> THEN [ret |-> <<>>, special |-> special]
          ELSE IF PyIntOfStr(answer)[1] = 0 THEN [ret |-> <<>>, special |-> TRUE]
          ELSE [ret |-> <<[float |-> FALSE, v |-> PyIntOfStr(answer)[1]]>>,
                special |-> special])
    ELSE [ret |-> <<>>, special |-> special]

\* the body of the loop (lines 1067-1086) for one line read: what it returns
\* (<<>> when it goes on to count += 1) and the value of special afterwards
ask_int_body(answer, special, n_trials) ==
    IF special
    THEN (IF PyFloat(answer) = <<>> THEN [ret |-> <<>>, special |-> special]
          ELSE [ret |-> <<[float |-> TRUE, v |-> PyFloat(answer)[1]]>>, special |-> special])
    ELSE IF PyFloat(answer) = <<>> THEN [ret |-> <<>>, special |-> special]
    ELSE IF is_integer(PyFloat(answer)[1])
    THEN (IF PyIntOfStr(answer) = <<>> THEN [ret |-> <<>>, special |-> special]
          ELSE IF PyIntOfStr(answer)[1] = 0 THEN [ret |-> <<>>, special |-> TRUE]
          ELSE IF PyIntOfStr(answer)[1] >= 1 /\ PyIntOfStr(answer)[1] <= n_trials
          THEN [ret |-> <<[float |-> FALSE, v |-> PyIntOfStr(answer)[1]]>>,
                special |-> special]
          ELSE [ret |-> <<>>, special |-> special])
    ELSE [ret |-> <<>>, special |-> special]

AiIdle == /\ ai_pc = "idle" /\ ai_in = <<>> /\ ai_count = 0 /\ ai_special = FALSE
          /\ ai_answers = <<>> /\ ai_out = <<>>

\* _ask_int(question, n_trials, max_attempts) with count=1 and special=False
AiInit ==
    /\ ai_pc = "loop"
    /\ ai_in \in [n_trials : 1..MaxTrials, max_attempts : 1..MaxAttempts]
    /\ ai_count = 1
    /\ ai_special = FALSE
    /\ ai_answers = <<>>
    /\ ai_out = <<>>

\* one turn of the while loop: a line is read and handled
AskIntRead ==
    /\ ai_pc = "loop"
    /\ ai_count < ai_in.max_attempts
    /\ \E answer \in Answers :
        LET r == ask_int_body(answer, ai_special, ai_in.n_trials)
        IN /\ ai_answers' = Append(ai_answers, [answer |-> answer, special |-> ai_special])
           /\ ai_special' = r.special
           /\ ai_out' = r.ret
           /\ ai_pc' = IF r.ret # <<>> THEN "done" ELSE "loop"
           /\ ai_count' = IF r.ret # <<>> THEN ai_count ELSE ai_count + 1
    /\ UNCHANGED <<ai_in, me_vars, rm_vars, bd_vars, st_vars, sc_vars, p_vars, ar_vars, sv_vars>>

\* the loop condition fails: return None
AskIntGiveUp ==
    /\ ai_pc = "loop"
    /\ ~(ai_count < ai_in.max_attempts)
    /\ ai_out' = <<>>
    /\ ai_pc' = "done"
    /\ UNCHANGED <<ai_in, ai_count, ai_special, ai_answers,
                   me_vars, rm_vars, bd_vars, st_vars, sc_vars, p_vars, ar_vars, sv_vars>>

\* -------------------------------------------------------------------------
\* a line that is an integer literal, and its value
IsTrialNumber(answer) == answer \in {"0", "1", "2", "3"}
\* a line the prompt is to accept in the mode it is in
ValidAnswer(a, n_trials) ==
    IF a.special THEN PyFloat(a.answer) # <<>>
    ELSE IsTrialNumber(a.answer) /\ PyIntOfStr(a.answer)[1] <= n_trials
\* the mode of the prompt after the lines read so far
ModeAfter(j) == IF j < Len(ai_answers) THEN ai_answers[j + 1].special ELSE ai_special

\* C21: _ask_int returns a non-None value only as an integer k, 1 <= k <=
\* n_trials, entered in trial-selection mode, or as a float entered after
\* the user answered 0; every other response is rejected and leaves the
\* prompt in its mode.
C21_OnlyValidAnswersReturn ==
    /\ ai_out # <<>> =>
          LET last == ai_answers[Len(ai_answers)] IN
          IF ai_out[1].float
          THEN /\ last.special
               /\ PyFloat(last.answer) = <<ai_out[1].v>>
               /\ \E j \in 1..(Len(ai_answers) - 1) :
                     ~ai_answers[j].special /\ ai_answers[j].answer = "0"
          ELSE /\ ~last.special
               /\ IsTrialNumber(last.answer)
               /\ PyIntOfStr(last.answer) = <<ai_out[1].v>>
               /\ 1 <= ai_out[1].v /\ ai_out[1].v <= ai_in.n_trials
    /\ \A j \in 1..Len(ai_answers) :
          ~ValidAnswer(ai_answers[j], ai_in.n_trials) =>
              /\ ModeAfter(j) = ai_answers[j].special
              /\ j = Len(ai_answers) => ai_out = <<>>

\* an out-of-range integer was rejected and then a trial was selected
C21_Witness ==
    /\ ai_pc = "done"
    /\ Len(ai_answers) = 2
    /\ ai_answers[1].answer = "3" /\ ai_in.n_trials = 2
    /\ ai_out = <<[float |-> FALSE, v |-> 2]>>

\* C22: the user gets max_attempts attempts: _ask_int returns None only
\* after max_attempts invalid responses, and a valid response on any attempt
\* up to attempt number max_attempts is accepted.
C22_AllAttemptsGiven ==
    (ai_pc = "done" /\ ai_out = <<>>) =>
        /\ Len(ai_answers) = ai_in.max_attempts
        /\ \A j \in 1..Len(ai_answers) :
              ~ValidAnswer(ai_answers[j], ai_in.n_trials) \/ ai_answers[j].answer = "0"

(***************************************************************************)
(* Star identifiers and Python's conversions on them                       *)
(*                                                                         *)
(* An identifier is a sequence of characters.  A cell of a table's star    *)
(* column is a string or an integer: Str(s) or IntL(n).                    *)
(***************************************************************************)
Digit == {"0", "1", "2", "3", "4", "5", "6", "7", "8", "9"}
DigitVal(c) == CASE c = "0" -> 0 [] c = "1" -> 1 [] c = "2" -> 2 [] c = "3" -> 3
                 [] c = "4" -> 4 [] c = "5" -> 5 [] c = "6" -> 6 [] c = "7" -> 7
                 [] c = "8" -> 8 [] c = "9" -> 9
DigitChar(d) == CASE d = 0 -> "0" [] d = 1 -> "1" [] d = 2 -> "2" [] d = 3 -> "3"
                  [] d = 4 -> "4" [] d = 5 -> "5" [] d = 6 -> "6" [] d = 7 -> "7"
                  [] d = 8 -> "8" [] d = 9 -> "9"
\* the code point of a character
Ord(c) == CASE c = "-" -> 45 [] c \in Digit -> 48 + DigitVal(c) [] c = "A" -> 65
            [] c = "B" -> 66
\* str.isalpha on one character
IsAlpha(c) == c \in {"A", "B"}

Str(s) == [int |-> FALSE, s |-> s, n |-> 0]
IntL(n) == [int |-> TRUE, s |-> <<>>, n |-> n]

RECURSIVE DigitsValue(_)
DigitsValue(s) == IF s = <<>> THEN 0
                  ELSE 10 * DigitsValue(SubSeq(s, 1, Len(s) - 1)) + DigitVal(s[Len(s)])
RECURSIVE NatDigits(_)
NatDigits(n) == IF n < 10 THEN <<DigitChar(n)>>
                ELSE NatDigits(n \div 10) \o <<DigitChar(n % 10)>>

\* an integer literal: an optional minus sign and at least one digit
IsIntLiteral(s) ==
    LET body == IF s # <<>> /\ s[1] = "-" THEN Tail(s) ELSE s
    IN body # <<>> /\ \A i \in 1..Len(body) : body[i] \in Digit
IntLiteralValue(s) ==
    IF s[1] = "-" THEN 0 - DigitsValue(Tail(s)) ELSE DigitsValue(s)

\* str(cell)
PyStr(cell) ==
    IF ~cell.int THEN cell.s
    ELSE IF cell.n < 0 THEN <<"-">> \o NatDigits(0 - cell.n) ELSE NatDigits(cell.n)
\* int(cell): <<n>>, or <<>> for a ValueError
PyInt(cell) ==
    IF cell.int THEN <<cell.n>>
    ELSE IF IsIntLiteral(cell.s) THEN <<IntLiteralValue(cell.s)>> ELSE <<>>
\* pandas.read_csv on a star field: an integer literal becomes an integer
ReadCsvStar(s) == IF IsIntLiteral(s) THEN IntL(IntLiteralValue(s)) ELSE Str(s)

RECURSIVE LexLess(_, _)
\* a < b for Python strings
LexLess(a, b) ==
    IF b = <<>> THEN FALSE
    ELSE IF a = <<>> THEN TRUE
    ELSE IF a[1] # b[1] THEN Ord(a[1]) < Ord(b[1])
    ELSE LexLess(Tail(a), Tail(b))

\* s without its element at position i
RemoveAt(s, i) == SubSeq(s, 1, i - 1) \o SubSeq(s, i + 1, Len(s))
RECURSIVE SortedInts(_)
\* sorted() on a list of integers
SortedInts(s) ==
    IF s = <<>> THEN <<>>
    ELSE LET i == CHOOSE i \in 1..Len(s) : \A j \in 1..Len(s) : s[i] <= s[j]
         IN <<s[i]>> \o SortedInts(RemoveAt(s, i))
RECURSIVE SortedStrs(_)
\* sorted() on a list of strings
SortedStrs(s) ==
    IF s = <<>> THEN <<>>
    ELSE LET i == CHOOSE i \in 1..Len(s) : \A j \in 1..Len(s) : ~LexLess(s[j], s[i])
         IN <<s[i]>> \o SortedStrs(RemoveAt(s, i))

(***************************************************************************)
(* _sort_table                                                             *)
(*                                                                         *)
(* A table is a sequence of rows [star, data]: star is the cell of the     *)
(* star column and data is <<d>> for the values d of the row, or <<>> for  *)
(* a row of NaN.                                                           *)
(***************************************************************************)
StarIds == { <<"1">>, <<"2">>, <<"1", "0">>, <<"1", "A">>, <<"1", "-", "2">> }
MaxStars == 3      \* stars with artifacts in the output directory
MaxRows == 4       \* rows of a table given to _sort_table
MaxCalls == 2      \* calls made in one process

SeqSet(s) == { s[i] : i \in 1..Len(s) }
\* the rows of a table in the loop at lines 907-917 that have no alphabetic
\* character (alpha == 0), and those that have one
NoAlpha(cell) == \A i \in 1..Len(PyStr(cell)) : ~IsAlpha(PyStr(cell)[i])
Stars(df) == [i \in 1..Len(df) |-> df[i].star]

\* df.reindex(final): a row per label of final, that of df with this index
\* label or else a row of NaN; a string never equals an integer label
Reindex(df, final) ==
    [i \in 1..Len(final) |->
        IF \E k \in 1..Len(df) : df[k].star = Str(final[i])
        THEN [star |-> Str(final[i]),
              data |-> df[CHOOSE k \in 1..Len(df) : df[k].star = Str(final[i])].data]
        ELSE [star |-> Str(final[i]), data |-> <<>>]]

\* _sort_table(df) called with the default lists holding one and two:
\* [err, df, one, two], the last two being the default lists afterwards
sort_table(df, one, two) ==
    LET one1 == one \o SelectSeq(Stars(df), NoAlpha)
        two1 == two \o SelectSeq(Stars(df), LAMBDA c : ~NoAlpha(c))
        ints == [i \in 1..Len(one1) |-> PyInt(one1[i])]
        ok   == \A i \in 1..Len(ints) : ints[i] # <<>>
        nums == SortedInts([i \in 1..Len(ints) |-> ints[i][1]])
        final == [i \in 1..Len(nums) |-> PyStr(IntL(nums[i]))]
                 \o SortedStrs([i \in 1..Len(two1) |-> PyStr(two1[i])])
    IN IF ~ok
       THEN [err |-> "ValueError", df |-> <<>>, one |-> one1, two |-> two1]
       ELSE [err |-> "none", df |-> Reindex(df, final), one |-> one1, two |-> two1]

\* the lists of distinct elements of S of length at most n
RECURSIVE Arrangements(_, _)
Arrangements(S, n) ==
    IF n = 0 THEN {<<>>}
    ELSE {<<>>} \cup UNION { { <<e>> \o t : t \in Arrangements(S \ {e}, n - 1) } : e \in S }
Orders(S) == { s \in Arrangements(S, Cardinality(S)) : Len(s) = Cardinality(S) }

StIdle == /\ sort_one = <<>> /\ sort_two = <<>>
          /\ st_calls = 0 /\ st_in = <<>> /\ st_out = <<>>
StInit == StIdle

\* one call _sort_table(df) on a table whose star column holds ids
SortTable ==
    /\ st_calls < MaxCalls
    /\ \E ids \in Arrangements(StarIds, MaxRows) :
        LET df == [i \in 1..Len(ids) |-> [star |-> Str(ids[i]), data |-> <<ids[i]>>]]
            r  == sort_table(df, sort_one, sort_two)
        IN /\ st_in' = ids
           /\ st_out' = [err |-> r.err, df |-> r.df]
           /\ sort_one' = r.one
           /\ sort_two' = r.two
    /\ st_calls' = st_calls + 1
    /\ UNCHANGED <<me_vars, rm_vars, sc_vars, p_vars, bd_vars, ar_vars, ai_vars, sv_vars>>

\* -------------------------------------------------------------------------
\* a purely numeric identifier: digits only
IsNumericId(s) == s # <<>> /\ \A i \in 1..Len(s) : s[i] \in Digit
RECURSIVE ByValue(_)
\* the numeric identifiers of the set S in ascending order of integer value
ByValue(S) ==
    IF S = {} THEN <<>>
    ELSE LET m == CHOOSE m \in S : \A k \in S : DigitsValue(m) <= DigitsValue(k)
         IN <<m>> \o ByValue(S \ {m})
\* numeric identifiers first, by value, then the others lexicographically
NumericFirst(ids) ==
    ByValue({ s \in SeqSet(ids) : IsNumericId(s) })
        \o SortedStrs(SelectSeq(ids, LAMBDA s : ~IsNumericId(s)))
SortExample == << <<"1", "0">>, <<"2">>, <<"1", "A">>, <<"1">> >>

\* C7: for every list of star identifiers _sort_table does not fail and
\* lists the purely numeric identifiers first in ascending integer order,
\* then all the others in lexicographic order; ["10","2","1A","1"] becomes
\* ["1","2","10","1A"].
C7_NumericThenLexicographic ==
    st_calls > 0 =>
        /\ st_out.err = "none"
        /\ [i \in 1..Len(st_out.df) |-> PyStr(st_out.df[i].star)] = NumericFirst(st_in)
        /\ st_in = SortExample =>
              [i \in 1..Len(st_out.df) |-> PyStr(st_out.df[i].star)]
                  = << <<"1">>, <<"2">>, <<"1", "0">>, <<"1", "A">> >>

(***************************************************************************)
(* scrape_output                                                           *)
(***************************************************************************)
ScIdle == /\ fs_est = {} /\ fs_glob = {} /\ sc_calls = 0 /\ sc_err = "none"
          /\ est_table = <<>> /\ glob_table = <<>>

\* the output directory holds the artifacts of at most MaxStars stars; the
\* ensemble tables are not written yet (<<>>: no file)
ScInit ==
    /\ fs_est \in SUBSET StarIds
    /\ fs_glob \in SUBSET StarIds
    /\ Cardinality(fs_est \cup fs_glob) <= MaxStars
    /\ sc_calls = 0
    /\ sc_err = "none"
    /\ est_table = <<>>
    /\ glob_table = <<>>

\* lines 864-873: a row per directory, read back from the star's artifact
EstimatesFrame(dirs) ==
    [i \in 1..Len(dirs) |-> [star |-> ReadCsvStar(dirs[i]), data |-> <<dirs[i]>>]]
\* lines 879-900: a row per directory, labelled with the directory name
GlobalFrame(dirs) ==
    [i \in 1..Len(dirs) |-> [star |-> Str(dirs[i]), data |-> <<dirs[i]>>]]

\* scrape_output(args); edirs and gdirs are the orders in which list(set(..))
\* yields the directories.  A table that is written is <<rows>>.
Scrape ==
    /\ sc_calls < MaxCalls
    /\ \E edirs \in Orders(fs_est), gdirs \in Orders(fs_glob) :
        LET e == IF fs_est # {}
                 THEN sort_table(EstimatesFrame(edirs), sort_one, sort_two)
                 ELSE [err |-> "none", df |-> <<>>, one |-> sort_one, two |-> sort_two]
            g == IF fs_glob # {} /\ e.err = "none"
                 THEN sort_table(GlobalFrame(gdirs), e.one, e.two)
                 ELSE [err |-> e.err, df |-> <<>>, one |-> e.one, two |-> e.two]
        IN /\ est_table' = IF fs_est # {} /\ e.err = "none" THEN <<e.df>> ELSE est_table
           /\ glob_table' = IF fs_glob # {} /\ g.err = "none" THEN <<g.df>> ELSE glob_table
           /\ sc_err' = g.err
           /\ sort_one' = g.one
           /\ sort_two' = g.two
    /\ sc_calls' = sc_calls + 1
    /\ UNCHANGED <<fs_est, fs_glob, st_calls, st_in, st_out, me_vars, rm_vars, p_vars, bd_vars, ar_vars, ai_vars, sv_vars>>

\* -------------------------------------------------------------------------
\* the table has exactly one row for each star of S and no other row
OneRowPerStar(table, S) ==
    \A id \in StarIds :
        Cardinality({ i \in 1..Len(table) : PyStr(table[i].star) = id })
            = IF id \in S THEN 1 ELSE 0

\* C6: every ensemble table scrape_output writes has exactly one row per
\* star that has an artifact of that kind and no row for any other star,
\* the global-fit table also when the point-estimate table was built before
\* it in the same call or process.
C6_OneRowPerStar ==
    sc_calls > 0 =>
        /\ est_table # <<>> => OneRowPerStar(est_table[1], fs_est)
        /\ glob_table # <<>> => OneRowPerStar(glob_table[1], fs_glob)

(***************************************************************************)
(* The per-star artifacts and scrape_output on them                        *)
(*                                                                         *)
(* files[<<kind, star>>][n] is the artifact n of that kind in the star's   *)
(* directory: n = 0 is the canonical path (estimates.csv, global.csv) and  *)
(* n >= 1 the numbered path (estimates_n.csv, global_n.csv); <<>> when the *)
(* file is absent, else <<[created, written, content]>>.  Every save has   *)
(* its own time t, and the value saved for a parameter p is <<p, t>>.      *)
(***************************************************************************)
MaxNumbered == 1   \* numbered artifacts of one kind in one directory
MaxSaves == 3      \* artifacts saved before the tables are made
MaxScrapes == 1    \* calls of scrape_output on the artifacts

ArtStars == { <<"1">>, <<"0", "2">>, <<"1", "-", "2">> }
Kinds == {"estimates", "global"}
ParamLists == { <<"numax">>, <<"numax", "dnu">> }
Platforms == {"posix", "nt"}

FileIdx == 0..MaxNumbered
NoFiles == [n \in FileIdx |-> <<>>]
Existing(fl) == { n \in FileIdx : fl[n] # <<>> }

\* _get_next: the first count, from 1, whose numbered path does not exist
NextNumbered(fl) == SetMin({ n \in 1..(MaxNumbered + 1) : n \notin Existing(fl) })

\* writing content to the path n chosen for overwrite (lines 778-780 and
\* 811-814): an existing file keeps its creation time
WriteArtifact(fl, overwrite, content) ==
    LET n == IF overwrite THEN 0 ELSE NextNumbered(fl)
    IN [fl EXCEPT ![n] = << [created |-> IF fl[n] # <<>> THEN fl[n][1].created ELSE now,
                            written |-> now,
                            content |-> content] >>]

\* os.path.getctime: the last change of the file on Unix, its creation on Windows
getctime(f) == IF platform = "posix" THEN f.written ELSE f.created

\* max(list_of_files, key=os.path.getctime)
NewestByCtime(fl) ==
    CHOOSE n \in Existing(fl) :
        \A m \in Existing(fl) : getctime(fl[m][1]) <= getctime(fl[n][1])

StarsWith(kind) == { star \in ArtStars : Existing(files[<<kind, star>>]) # {} }

ErrColumn(p) == CASE p = "numax" -> "numax_err" [] p = "dnu" -> "dnu_err"

\* lines 886-890: the columns of df_new for an artifact
ColumnsOf(content) ==
    content.parameters
        \o (IF content.unc THEN [i \in 1..Len(content.parameters) |->
                                    ErrColumn(content.parameters[i])]
            ELSE <<>>)

\* the values of df_new by column: the value column, then the uncertainty column
ValuesOf(content) ==
    [c \in SeqRange(ColumnsOf(content)) |->
        IF c \in SeqRange(content.parameters) THEN <<c, content.t>>
        ELSE <<c, content.t, "uncertainty">>]

RECURSIVE AddColumns(_, _)
\* lines 895-898: a column of df_new that df lacks is added to df
AddColumns(cols, new) ==
    IF new = <<>> THEN cols
    ELSE AddColumns(IF Head(new) \in SeqRange(cols) THEN cols ELSE Append(cols, Head(new)),
                    Tail(new))

RECURSIVE FrameColumns(_, _)
FrameColumns(cols, contents) ==
    IF contents = <<>> THEN cols
    ELSE FrameColumns(AddColumns(cols, ColumnsOf(Head(contents))), Tail(contents))

\* the file scrape_output reads in each directory of dirs
FilesRead(kind, dirs) ==
    [i \in 1..Len(dirs) |-> NewestByCtime(files[<<kind, dirs[i]>>])]
ContentsRead(kind, dirs) ==
    [i \in 1..Len(dirs) |-> files[<<kind, dirs[i]>>][FilesRead(kind, dirs)[i]][1].content]

\* lines 864-873: the rows read back from the estimates artifacts
ArtEstimatesFrame(dirs) ==
    [i \in 1..Len(dirs) |-> [star |-> ReadCsvStar(ContentsRead("estimates", dirs)[i].star),
                             data |-> <<ContentsRead("estimates", dirs)[i]>>]]
\* lines 879-900: a row per directory, labelled with the directory name
ArtGlobalFrame(dirs) ==
    [i \in 1..Len(dirs) |-> [star |-> Str(dirs[i]),
                             data |-> <<ValuesOf(ContentsRead("global", dirs)[i])>>]]

NothingRead == [k \in Kinds \X ArtStars |-> <<>>]
ReadOf(kind, done) ==
    [k \in Kinds \X ArtStars |->
        IF k[1] = kind /\ k[2] \in StarsWith(kind) /\ done
        THEN <<NewestByCtime(files[k])>> ELSE <<>>]

ArIdle == /\ platform = "none" /\ now = 0 /\ files = <<>> /\ ar_saves = 0
          /\ ar_calls = 0 /\ ar_err = "none" /\ ar_read = <<>>
          /\ ar_est = <<>> /\ ar_glob = <<>>

\* an output directory without artifacts, on either operating system
ArInit ==
    /\ platform \in Platforms
    /\ now = 1
    /\ files = [k \in Kinds \X ArtStars |-> NoFiles]
    /\ ar_saves = 0
    /\ ar_calls = 0
    /\ ar_err = "none"
    /\ ar_read = NothingRead
    /\ ar_est = <<>>
    /\ ar_glob = <<>>

\* _save_estimates(star), for a star with a best estimate
SaveEstimates ==
    /\ ar_saves < MaxSaves /\ ar_calls = 0
    /\ \E star \in ArtStars, overwrite \in BOOLEAN :
        /\ overwrite \/ NextNumbered(files[<<"estimates", star>>]) <= MaxNumbered
        /\ files' = [files EXCEPT ![<<"estimates", star>>] =
                        WriteArtifact(@, overwrite, [star |-> star, t |-> now])]
    /\ now' = now + 1
    /\ ar_saves' = ar_saves + 1
    /\ UNCHANGED <<platform, ar_calls, ar_err, ar_read, ar_est, ar_glob,
                   me_vars, rm_vars, bd_vars, st_vars, sc_vars, p_vars, ai_vars, sv_vars>>

\* _save_parameters(star); many is mc_iter > 1 (samples.csv is no artifact
\* that scrape_output reads)
SaveParameters ==
    /\ ar_saves < MaxSaves /\ ar_calls = 0
    /\ \E star \in ArtStars, overwrite \in BOOLEAN, many \in BOOLEAN, ps \in ParamLists :
        /\ overwrite \/ NextNumbered(files[<<"global", star>>]) <= MaxNumbered
        /\ files' = [files EXCEPT ![<<"global", star>>] =
                        WriteArtifact(@, overwrite,
                                      [parameters |-> ps, unc |-> many, t |-> now])]
    /\ now' = now + 1
    /\ ar_saves' = ar_saves + 1
    /\ UNCHANGED <<platform, ar_calls, ar_err, ar_read, ar_est, ar_glob,
                   me_vars, rm_vars, bd_vars, st_vars, sc_vars, p_vars, ai_vars, sv_vars>>

\* scrape_output(args) on the artifacts; args.params['overwrite'] is not read.
\* A table that is written is <<[columns, rows]>>.
ScrapeArtifacts ==
    /\ ar_calls < MaxScrapes
    /\ \E edirs \in Orders(StarsWith("estimates")), gdirs \in Orders(StarsWith("global")) :
        LET has_e == edirs # <<>>
            has_g == gdirs # <<>>
            e == IF has_e THEN sort_table(ArtEstimatesFrame(edirs), sort_one, sort_two)
                 ELSE [err |-> "none", df |-> <<>>, one |-> sort_one, two |-> sort_two]
            g == IF has_g /\ e.err = "none"
                 THEN sort_table(ArtGlobalFrame(gdirs), e.one, e.two)
                 ELSE [err |-> e.err, df |-> <<>>, one |-> e.one, two |-> e.two]
            re == ReadOf("estimates", has_e)
            rg == ReadOf("global", has_g /\ e.err = "none")
        IN /\ ar_est' = IF has_e /\ e.err = "none"
                        THEN <<[columns |-> <<"star", "numax", "dnu", "snr">>, rows |-> e.df]>>
                        ELSE ar_est
           /\ ar_glob' = IF has_g /\ g.err = "none"
                         THEN <<[columns |-> FrameColumns(<<"star">>,
                                                          ContentsRead("global", gdirs)),
                                 rows |-> g.df]>>
                         ELSE ar_glob
           /\ ar_read' = [k \in Kinds \X ArtStars |-> IF k[1] = "estimates" THEN re[k] ELSE rg[k]]
           /\ ar_err' = g.err
           /\ sort_one' = g.one
           /\ sort_two' = g.two
    /\ ar_calls' = ar_calls + 1
    /\ UNCHANGED <<platform, now, files, ar_saves, st_calls, st_in, st_out,
                   me_vars, rm_vars, bd_vars, sc_vars, p_vars, ai_vars, sv_vars>>

\* -------------------------------------------------------------------------
\* the artifact of the directory that was written last
MostRecentlyWritten(fl) ==
    CHOOSE n \in Existing(fl) : \A m \in Existing(fl) : fl[m][1].written <= fl[n][1].written
\* the global-fit artifact scrape_output takes for the star
TakenContent(star) ==
    files[<<"global", star>>][NewestByCtime(files[<<"global", star>>])][1].content
Scraped == ar_calls > 0

\* C18: for each star and each artifact kind scrape_output reads the most
\* recently written artifact of the star; in particular the canonical path
\* when that was written after the numbered artifacts of earlier runs.
C18_ReadsLatestArtifact ==
    Scraped =>
        \A k \in Kinds \X ArtStars :
            ar_read[k] # <<>> => ar_read[k] = <<MostRecentlyWritten(files[k])>>

\* C19: the columns of the global-fit table are the union of the parameter
\* names of the per-star artifacts; every star with an artifact has a row
\* with its own values, the columns it lacks being marked missing.
C19_ColumnsAreUnion ==
    (Scraped /\ StarsWith("global") # {}) =>
        /\ ar_glob # <<>>
        /\ SeqRange(ar_glob[1].columns)
              = {"star"} \cup UNION { SeqRange(ColumnsOf(TakenContent(star))) :
                                       star \in StarsWith("global") }
        /\ \A star \in StarsWith("global") :
              \E i \in 1..Len(ar_glob[1].rows) :
                  /\ PyStr(ar_glob[1].rows[i].star) = star
                  /\ ar_glob[1].rows[i].data = <<ValuesOf(TakenContent(star))>>

\* C20: the global-fit table has the column '<parameter>_err' exactly when
\* some star's artifact carries an uncertainty for the parameter (it was
\* written with more than one iteration).
C20_ErrColumnsIffUncertainty ==
    (Scraped /\ StarsWith("global") # {}) =>
        /\ ar_glob # <<>>
        /\ \A p \in {"numax", "dnu"} :
              ErrColumn(p) \in SeqRange(ar_glob[1].columns)
                  <=> \E star \in StarsWith("global") :
                         /\ TakenContent(star).unc
                         /\ p \in SeqRange(TakenContent(star).parameters)

(***************************************************************************)
(* Saving without overwriting: _save_file, _get_next, _save_estimates and  *)
(* _save_parameters on the names of the files                              *)
(*                                                                         *)
(* A file name is the sequence of its dot-separated parts ('ps.v2.txt' has *)
(* three), and a part is [base, sfx]: the text base followed by '_n' for   *)
(* each n of sfx, so 'estimates_2' is [base "estimates", sfx <<2>>].  The  *)
(* directory sv_fs maps each existing name to the number of the write that *)
(* made its content.                                                       *)
(***************************************************************************)
MaxWrites == 3

Part(base) == [base |-> base, sfx |-> <<>>]
FName(stem, ext) == <<Part(stem), Part(ext)>>
\* the paths handed to _save_file
SvPaths == {FName("ps", "txt"), <<Part("ps"), Part("v2"), Part("txt")>>}

exists(fs, fname) == fname \in DOMAIN fs
\* open(path, "w") and the writers called with overwrite=True
Put(fs, fname, c) == [k \in DOMAIN fs \cup {fname} |-> IF k = fname THEN c ELSE fs[k]]

\* '%s_%d.%s' % (fname.split('.')[0], count, fname.split('.')[-1])
new_fname(fname, count) ==
    <<[base |-> fname[1].base, sfx |-> fname[1].sfx \o <<count>>], fname[Len(fname)]>>

\* _get_next without its while loop
get_next_first_count(fs, fname, count) == new_fname(fname, count)
RECURSIVE get_next(_, _, _)
get_next(fs, fname, count) ==
    IF exists(fs, new_fname(fname, count)) THEN get_next(fs, fname, count + 1)
    ELSE new_fname(fname, count)

\* the path _save_file opens
save_file_path(fs, path, overwrite) ==
    IF exists(fs, path) /\ ~overwrite THEN get_next(fs, path, 1) ELSE path
\* the path _save_estimates and _save_parameters write
save_path(fs, fname, overwrite) ==
    IF ~overwrite THEN get_next(fs, fname, 1) ELSE fname

SvIdle == sv_fs = <<>> /\ sv_writes = 0 /\ sv_last = [fn |-> "none", overwrite |-> FALSE, wrote |-> 0]

\* the directory is empty, or holds the files of an earlier run
SvInit ==
    /\ sv_fs \in {<<>>, Put(<<>>, FName("ps", "txt"), 0),
                  Put(Put(<<>>, FName("estimates", "csv"), 0), FName("global", "csv"), 0)}
    /\ sv_writes = 0
    /\ sv_last = [fn |-> "none", overwrite |-> FALSE, wrote |-> 0]

SvFile ==
    /\ sv_writes < MaxWrites
    /\ \E path \in SvPaths, overwrite \in BOOLEAN :
         /\ sv_fs' = Put(sv_fs, save_file_path(sv_fs, path, overwrite), sv_writes + 1)
         /\ sv_writes' = sv_writes + 1
         /\ sv_last' = [fn |-> "_save_file", overwrite |-> overwrite, wrote |-> 1]
    /\ UNCHANGED <<me_vars, rm_vars, bd_vars, st_vars, sc_vars, p_vars, ar_vars, ai_vars>>

SvEstimates ==
    /\ sv_writes < MaxWrites
    /\ \E best \in BOOLEAN, overwrite \in BOOLEAN :
         /\ sv_fs' = IF best
                     THEN Put(sv_fs, save_path(sv_fs, FName("estimates", "csv"), overwrite),
                              sv_writes + 1)
                     ELSE sv_fs
         /\ sv_writes' = IF best THEN sv_writes + 1 ELSE sv_writes
         /\ sv_last' = [fn |-> "_save_estimates", overwrite |-> overwrite,
                        wrote |-> IF best THEN 1 ELSE 0]
    /\ UNCHANGED <<me_vars, rm_vars, bd_vars, st_vars, sc_vars, p_vars, ar_vars, ai_vars>>

SvParameters ==
    \E samples \in BOOLEAN, overwrite \in BOOLEAN :
       LET wrote == IF samples THEN 2 ELSE 1
           one == Put(sv_fs, save_path(sv_fs, FName("global", "csv"), overwrite),
                      sv_writes + 1)
       IN /\ sv_writes + wrote <= MaxWrites
          /\ sv_fs' = IF samples
                      THEN Put(one, save_path(one, FName("samples", "csv"), overwrite),
                               sv_writes + 2)
                      ELSE one
          /\ sv_writes' = sv_writes + wrote
          /\ sv_last' = [fn |-> "_save_parameters", overwrite |-> overwrite, wrote |-> wrote]
          /\ UNCHANGED <<me_vars, rm_vars, bd_vars, st_vars, sc_vars, p_vars, ar_vars, ai_vars>>

\* C25: with overwrite disabled a save never replaces a file: _get_next
\* returns a path that does not exist, so every file that existed before
\* the save is still there with its content and the save adds as many new
\* files as it wrote (k saves leave k distinct files).
C25_SavesNeverReplace ==
    [][(sv_writes' # sv_writes /\ ~sv_last'.overwrite) =>
          /\ \A f \in DOMAIN sv_fs : f \in DOMAIN sv_fs' /\ sv_fs'[f] = sv_fs[f]
          /\ Cardinality(DOMAIN sv_fs') = Cardinality(DOMAIN sv_fs) + (sv_writes' - sv_writes)
      ]_vars

\* C25 witness: three saves of the estimates without overwriting left
\* estimates_1.csv, estimates_2.csv and estimates_3.csv, each with the
\* content of its own save.
C25_Witness ==
    /\ sv_last.fn = "_save_estimates" /\ ~sv_last.overwrite /\ sv_writes = 3
    /\ \A n \in 1..3 :
         /\ new_fname(FName("estimates", "csv"), n) \in DOMAIN sv_fs
         /\ sv_fs[new_fname(FName("estimates", "csv"), n)] = n

(***************************************************************************)
(* Parameters: construction                                                *)
(*                                                                         *)
(* self.params is a function from keys to optional values.  A method is    *)
(* an operator from the dictionary to [err, params]: the exception it      *)
(* raises ("none" when it returns) and the dictionary it leaves.           *)
(***************************************************************************)
MaxList == 2       \* length of a star list or of an override sequence
MaxThreads == 2    \* --nthreads is drawn from 0..MaxThreads
MaxRuns == 2       \* constructions made with the same arguments and files

StarNames == {"1", "2"}
\* a star identifier spelled like a key of get_parent
ParamNamedStars == {"save"}
\* values of --laws
NLaws == {2, 4}
NumaxVals == {100, 200}

\* dict.update
Update(d, e) == [k \in DOMAIN d \cup DOMAIN e |-> IF k \in DOMAIN e THEN e[k] ELSE d[k]]

\* Constants.__init__: the keys of self.constants
ConstantKeys == {"m_sun", "r_sun", "rho_sun", "teff_sun", "logg_sun", "teffred_sun",
                 "numax_sun", "dnu_sun", "width_sun", "tau_sun", "tau_sun_single",
                 "G", "cm2au", "au2cm", "rad2deg", "deg2rad"}

get_parent(d) ==
    [err |-> "none",
     params |-> Update(d, [cli |-> <<FALSE>>, inpdir |-> <<"INPDIR">>,
                           infdir |-> <<"INFDIR">>, outdir |-> <<"OUTDIR">>,
                           overwrite |-> <<FALSE>>, show |-> <<FALSE>>, ret |-> <<FALSE>>,
                           save |-> <<TRUE>>, test |-> <<FALSE>>, verbose |-> <<FALSE>>])]

get_data(d) ==
    [err |-> "none",
     params |-> Update(d, [dnu |-> <<>>, gap |-> <<20>>, info |-> <<"INFDIR/star_info.csv">>,
                           ignore |-> <<FALSE>>, kep_corr |-> <<FALSE>>, lower_ff |-> <<>>,
                           lower_lc |-> <<>>, lower_ps |-> <<>>, mode |-> <<"load">>,
                           notching |-> <<FALSE>>, oversampling_factor |-> <<>>,
                           seed |-> <<>>, stars |-> <<>>, todo |-> <<"INFDIR/todo.txt">>,
                           upper_ff |-> <<>>, upper_lc |-> <<>>, upper_ps |-> <<>>,
                           stitch |-> <<FALSE>>, n_threads |-> <<0>>])]

\* the names in scope in the body of get_estimate: its parameters and self
EstimateScope == {"self", "ask", "binning", "bin_mode", "estimate", "adjust", "lower_se",
                  "n_trials", "smooth_width", "step", "upper_se"}
\* the names the dict(...) call of get_estimate reads, in order, for its keys
EstimateReads == << <<"ask", "ask">>, <<"binning", "binning">>, <<"bin_mode", "bin_mode">>,
                    <<"estimate", "estimate">>, <<"adjust", "adjust">>,
                    <<"lower_est", "lower_est">>, <<"n_trials", "n_trials">>,
                    <<"smooth_width", "smooth_width">>, <<"step", "step">>,
                    <<"upper_ex", "upper_ex">> >>

\* reading a name that is neither local nor global raises NameError, and the
\* dictionary is then left as it was
get_estimate(d) ==
    IF \E i \in 1..Len(EstimateReads) : EstimateReads[i][2] \notin EstimateScope
    THEN [err |-> "NameError", params |-> d]
    ELSE [err |-> "none",
          params |-> Update(d, [k \in { EstimateReads[i][1] : i \in 1..Len(EstimateReads) }
                                   |-> <<k>>])]

\* get_defaults up to the first exception: get_parent, get_data, get_estimate
\* (get_background and get_global follow when get_estimate returns)
get_defaults ==
    LET a == get_parent(<<>>)
        b == get_data(a.params)
    IN get_estimate(b.params)

\* None, or a list of one to MaxList of the elements of S
OptLists(S) == {<<>>} \cup { <<l>> : l \in UNION { [1..n -> S] : n \in 1..MaxList } }

PIdle == /\ p_pc = "idle" /\ p_in = <<>> /\ params = <<>> /\ constants = {}
         /\ made_dirs = {} /\ p_err = "none" /\ p_runs = 0 /\ params_prev = <<>>

\* the arguments of Parameters(args, stars) and the files it may read:
\*   interactive  what _is_interactive() returns
\*   stars        the stars argument
\*   args         the parsed command line (cli, stars, numax, ignore, mode,
\*                n_threads, n_laws)
\*   todo         the star list file: <<>> when absent, else <<list>>
\*   info         the star_info.csv file: the numax column, by star
\*   info_cols    its other columns, by star: dnu (in hundredths), rs, logg, teff
NoCols == [s \in StarNames \cup ParamNamedStars |-> [dnu |-> <<>>, rs |-> <<>>, logg |-> <<>>, teff |-> <<>>]]
SomeCols == [s \in StarNames \cup ParamNamedStars |->
               IF s = "1" THEN [dnu |-> <<2000>>, rs |-> <<>>, logg |-> <<>>, teff |-> <<>>]
               ELSE IF s = "2" THEN [dnu |-> <<>>, rs |-> <<1>>, logg |-> <<4>>, teff |-> <<>>]
               ELSE [dnu |-> <<>>, rs |-> <<>>, logg |-> <<>>, teff |-> <<>>]]
\* the star lists given: lists of StarNames, and two with a star named 'save'
StarLists == OptLists(StarNames) \cup {<< <<"save">> >>, << <<"1", "save">> >>}

PInit ==
    /\ p_pc = "new"
    /\ p_in \in [ interactive : BOOLEAN,
                  stars : StarLists,
                  args : [ cli : BOOLEAN, stars : StarLists,
                           numax : OptLists(NumaxVals), ignore : BOOLEAN,
                           mode : {"run", "parallel"}, n_threads : 0..MaxThreads,
                           n_laws : {<<>>} \cup { <<n>> : n \in NLaws } ],
                  todo : {<<>>, << <<"1", "2">> >>},
                  info : {<<>>, <<[s \in StarNames \cup ParamNamedStars |->
                                      IF s = "1" THEN <<300>> ELSE <<>>]>>},
                  info_cols : {NoCols, SomeCols} ]
    /\ (p_in.info = <<>> => p_in.info_cols = NoCols)
    /\ (p_in.interactive => p_in.args = [cli |-> TRUE, stars |-> <<>>, numax |-> <<>>,
                                         ignore |-> FALSE, mode |-> "run", n_threads |-> 0,
                                         n_laws |-> <<>>])
    /\ (~p_in.interactive => p_in.stars = <<>>)
    /\ params = <<>>
    /\ constants = {}
    /\ made_dirs = {}
    /\ p_err = "none"
    /\ p_runs = 0
    /\ params_prev = <<>>

\* Parameters.__init__: lines 94-95 run; get_defaults raises, so the
\* exception leaves the constructor before line 96.  A later construction
\* makes a new object from the same arguments and files.
Parameters__init__ ==
    /\ p_pc = "new" \/ (p_pc = "raised" /\ p_runs < MaxRuns)
    /\ get_defaults.err # "none"
    /\ p_runs' = p_runs + 1
    /\ params_prev' = params
    /\ constants' = ConstantKeys
    /\ params' = get_defaults.params
    /\ p_err' = get_defaults.err
    /\ p_pc' = "raised"
    /\ UNCHANGED <<p_in, made_dirs, me_vars, rm_vars, st_vars, sc_vars, bd_vars, ar_vars, ai_vars, sv_vars>>

\* -------------------------------------------------------------------------
\* What the construction is asked for, read off its arguments.
\* the star list: the explicit one, or else the star list file; <<>> if neither
Requested(in) ==
    IF in.interactive
    THEN (IF in.stars # <<>> THEN in.stars ELSE in.todo)
    ELSE (IF in.args.stars # <<>> THEN in.args.stars ELSE in.todo)
Determinable(in) == Requested(in) # <<>>
\* an override sequence was supplied in CLI mode
OverridesApply(in) == ~in.interactive /\ in.args.cli /\ in.args.numax # <<>>
LengthsAgree(in) ==
    OverridesApply(in) => Len(in.args.numax[1]) = Len(Requested(in)[1])
ValidInput(in) == Determinable(in) /\ LengthsAgree(in)
IgnoreCatalog(in) == ~in.interactive /\ in.args.cli /\ in.args.ignore
\* the numax the star at position i of the request list is to get
ExpectedNumax(in, i) ==
    LET star == Requested(in)[1][i]
    IN IF OverridesApply(in) THEN <<in.args.numax[1][i]>>
       ELSE IF in.info # <<>> /\ ~IgnoreCatalog(in) /\ in.info[1][star] # <<>>
            THEN in.info[1][star]
            ELSE <<>>
OccursOnce(l, i) == \A j \in 1..Len(l) : l[j] = l[i] => j = i
Finished == p_pc # "new"
ConfigErrors == {"PySYDInputError", "AssertionError"}
Min2(a, b) == IF a < b THEN a ELSE b
\* group g of n groups: the stars at positions g, g+n, g+2n, ... of l
RoundRobin(l, n) ==
    [g \in 1..n |-> [k \in 1..((Len(l) - g) \div n + 1) |-> l[g + (k - 1) * n]]]

\* C1: after resolution every requested star has, for an override-capable
\* parameter (numax), the override value at its position if an override
\* sequence was supplied in CLI mode, otherwise the non-missing catalog value
\* if a catalog exists and is not ignored, otherwise the global default.
C1_ResolutionPrecedence ==
    Finished /\ ValidInput(p_in) =>
        /\ p_err = "none"
        /\ \A i \in 1..Len(Requested(p_in)[1]) :
              OccursOnce(Requested(p_in)[1], i) =>
                  /\ Requested(p_in)[1][i] \in DOMAIN params
                  /\ "numax" \in DOMAIN params[Requested(p_in)[1][i]]
                  /\ params[Requested(p_in)[1][i]]["numax"] = ExpectedNumax(p_in, i)

\* C2: when a non-null override sequence has a length different from the
\* number of requested stars, construction fails with a CONFIG error before
\* any per-star entry of params or per-star directory is made.
C2_LengthMismatchFailsFast ==
    Finished /\ Determinable(p_in) /\ OverridesApply(p_in) /\ ~LengthsAgree(p_in) =>
        /\ p_err \in ConfigErrors
        /\ DOMAIN params \cap StarNames = {}
        /\ made_dirs = {}

\* C3: when no star identifiers can be determined, construction fails with
\* PySYDInputError on every path: interactive, CLI with args.cli true and
\* CLI with args.cli false.
C3_NoStarsIsInputError ==
    Finished /\ ~Determinable(p_in) => p_err = "PySYDInputError"

\* C4: in parallel mode with a requested worker count W > 0 and S stars,
\* params['groups'] has exactly min(W, S) groups and group i holds the stars
\* at positions i, i+N, i+2N, ... in their original order.
C4_RoundRobinGroups ==
    Finished /\ ValidInput(p_in) /\ ~p_in.interactive /\ p_in.args.cli
             /\ p_in.args.mode = "parallel" /\ p_in.args.n_threads > 0 =>
        /\ "groups" \in DOMAIN params
        /\ Len(params["groups"][1])
              = Min2(p_in.args.n_threads, Len(Requested(p_in)[1]))
        /\ params["groups"][1]
              = RoundRobin(Requested(p_in)[1], Len(params["groups"][1]))

\* C5: the groups made for a star list are pairwise disjoint and their
\* union is the set of the stars of the list.
C5_GroupsPartitionStars ==
    Finished /\ ValidInput(p_in) =>
        /\ "groups" \in DOMAIN params
        /\ \A g, h \in 1..Len(params["groups"][1]) :
              g # h => SeqSet(params["groups"][1][g]) \cap SeqSet(params["groups"][1][h]) = {}
        /\ UNION { SeqSet(params["groups"][1][g]) : g \in 1..Len(params["groups"][1]) }
              = SeqSet(Requested(p_in)[1])

\* delta_nu(numax) = 0.22*numax**0.797, in hundredths, for the numax values used
delta_nu(numax) == CASE numax = 100 -> 864 [] numax = 200 -> 1501 [] numax = 300 -> 2073

\* the keyword parameters the builders of get_defaults declare
DeclaredParams == DOMAIN get_parent(<<>>).params \cup DOMAIN get_data(<<>>).params
                     \cup (EstimateScope \ {"self"})
\* per-star columns that _add_info reads from every star's entry
InfoColumns == {"numax", "dnu", "lower_ech", "upper_ech"}

CatalogUsed(in) == in.info # <<>> /\ ~IgnoreCatalog(in)
\* the dnu that was explicitly resolved for the star at position i
ExpectedDnu(in, i) ==
    IF CatalogUsed(in) THEN in.info_cols[Requested(in)[1][i]].dnu ELSE <<>>
\* an operand of the scaling relations is missing for the star at position i
OperandMissing(in, i) ==
    LET c == in.info_cols[Requested(in)[1][i]]
    IN ~CatalogUsed(in) \/ c.rs = <<>> \/ c.logg = <<>> \/ c.teff = <<>>
HasKey(d, k) == k \in DOMAIN d

\* C14: after resolution, every star whose numax was resolved from the
\* catalog or an override has estimate false and dnu = delta_nu(numax), and
\* an explicitly resolved dnu is recorded separately as 'force'.
C14_KnownNumaxSkipsSearch ==
    Finished /\ ValidInput(p_in) =>
        /\ p_err = "none"
        /\ \A i \in 1..Len(Requested(p_in)[1]) :
              LET star == Requested(p_in)[1][i] IN
              (OccursOnce(Requested(p_in)[1], i) /\ ExpectedNumax(p_in, i) # <<>>) =>
                  /\ HasKey(params, star)
                  /\ HasKey(params[star], "estimate") /\ params[star]["estimate"] = <<FALSE>>
                  /\ HasKey(params[star], "dnu")
                  /\ params[star]["dnu"] = <<delta_nu(ExpectedNumax(p_in, i)[1])>>
                  /\ ExpectedDnu(p_in, i) # <<>> =>
                        (HasKey(params[star], "force")
                            /\ params[star]["force"] = ExpectedDnu(p_in, i))

\* C15: for a star with no resolved numax, derivation from the stellar
\* parameters never raises; if radius, surface gravity or effective
\* temperature is missing, numax and dnu are left null and resolution goes on.
C15_MissingOperandIsNotAnError ==
    Finished /\ ValidInput(p_in) =>
        /\ p_err = "none"
        /\ \A i \in 1..Len(Requested(p_in)[1]) :
              LET star == Requested(p_in)[1][i] IN
              (/\ OccursOnce(Requested(p_in)[1], i)
               /\ ExpectedNumax(p_in, i) = <<>> /\ ExpectedDnu(p_in, i) = <<>>
               /\ OperandMissing(p_in, i)) =>
                  /\ HasKey(params, star)
                  /\ HasKey(params[star], "numax") /\ params[star]["numax"] = <<>>
                  /\ HasKey(params[star], "dnu") /\ params[star]["dnu"] = <<>>

\* C16: building the global defaults completes without error and yields a
\* value for every declared parameter; afterwards every star's configuration
\* holds a key for every declared per-star column.
C16_DefaultsComplete ==
    Finished =>
        /\ p_err # "NameError"
        /\ DeclaredParams \subseteq DOMAIN params
        /\ (p_err = "none" /\ ValidInput(p_in)) =>
              \A i \in 1..Len(Requested(p_in)[1]) :
                  /\ HasKey(params, Requested(p_in)[1][i])
                  /\ InfoColumns \subseteq DOMAIN params[Requested(p_in)[1][i]]

\* C17: resolving the same defaults, catalog, overrides and star list twice
\* yields an identical configuration for every star.
C17_ResolutionRepeatable ==
    (p_runs = MaxRuns /\ ValidInput(p_in)) =>
        \A i \in 1..Len(Requested(p_in)[1]) :
            /\ HasKey(params, Requested(p_in)[1][i])
            /\ HasKey(params_prev, Requested(p_in)[1][i])
            /\ params[Requested(p_in)[1][i]] = params_prev[Requested(p_in)[1][i]]

\* -------------------------------------------------------------------------
\* check_cli and the command line
\* max_laws of check_cli
max_laws == 3
\* the keys of the table of get_dict(type='functions')
FunctionKeys == 0..7
\* the keys of self.override, each read as an attribute of args
OverrideNames == <<"numax", "dnu", "lower_ex", "upper_ex", "lower_bg", "upper_bg",
                   "lower_ps", "upper_ps", "lower_ech", "upper_ech">>
\* the dest of every argument of the parent, data, estimate, background and
\* global parsers, with the dest of the sub-parsers and of --nthreads
ParserDests ==
    {"cli", "inpdir", "infdir", "outdir", "overwrite", "show", "ret", "save", "test",
     "verbose"}
    \cup {"dnu", "gap", "info", "ignore", "kep_corr", "lower_ff", "lower_lc", "lower_ps",
          "notching", "oversampling_factor", "seed", "stars", "todo", "upper_ff",
          "upper_lc", "upper_ps", "stitch"}
    \cup {"ask", "binning", "bin_mode", "estimate", "adjust", "lower_se", "n_trials",
          "smooth_width", "step", "upper_se"}
    \cup {"background", "basis", "box_filter", "ind_width", "n_laws", "lower_bg", "metric",
          "models", "n_rms", "upper_bg", "fix_wn"}
    \cup {"cmap", "clip_value", "fft", "globe", "interp_ech", "lower_osc", "mc_iter", "nox",
          "noy", "npb", "n_peaks", "numax", "osc_width", "smooth_ech", "sm_par",
          "smooth_ps", "acf_width", "upper_osc", "hey", "samples"}
    \cup {"mode", "n_threads"}

\* the positions of the request list, and the star at a position
Positions(in) == 1..Len(Requested(in)[1])
StarAt(in, i) == Requested(in)[1][i]
CommandLine(in) == ~in.interactive /\ in.args.cli

\* C23: after assign_stars every requested star has an output path, two
\* different stars have different paths, and every star is in exactly one
\* group, so no two workers write to the same path.
C23_DistinctPathsAndGroups ==
    Finished /\ ValidInput(p_in) =>
        /\ p_err = "none"
        /\ \A i \in Positions(p_in) :
              /\ HasKey(params, StarAt(p_in, i))
              /\ HasKey(params[StarAt(p_in, i)], "path")
        /\ \A i, j \in Positions(p_in) :
              StarAt(p_in, i) # StarAt(p_in, j) =>
                  params[StarAt(p_in, i)]["path"] # params[StarAt(p_in, j)]["path"]
        /\ HasKey(params, "groups")
        /\ \A i \in Positions(p_in) :
              Cardinality({ g \in 1..Len(params["groups"][1]) :
                              StarAt(p_in, i) \in SeqSet(params["groups"][1][g]) }) = 1

\* C24: a number of laws above max_laws given on the command line fails
\* with a CONFIG error before any per-star entry or directory is made, and
\* an accepted number n is kept and has both call shapes, 2n and 2n+1, in
\* the function table.
C24_LawsWithinFunctionTable ==
    Finished /\ Determinable(p_in) /\ CommandLine(p_in) /\ p_in.args.n_laws # <<>> =>
        IF p_in.args.n_laws[1] > max_laws
        THEN /\ p_err \in ConfigErrors
             /\ DOMAIN params \cap StarNames = {}
             /\ made_dirs = {}
        ELSE /\ LengthsAgree(p_in) => p_err = "none"
             /\ HasKey(params, "n_laws") /\ params["n_laws"] = p_in.args.n_laws
             /\ {2 * p_in.args.n_laws[1], 2 * p_in.args.n_laws[1] + 1} \subseteq FunctionKeys

\* C27: assign_stars completes and changes only per-star entries: every
\* key of get_parent that the command line does not set still maps to its
\* default, also when a star is named like one of these keys.
C27_GlobalsKeptByAssignStars ==
    Finished /\ ValidInput(p_in) =>
        /\ p_err = "none"
        /\ \A k \in DOMAIN get_parent(<<>>).params \ {"cli"} :
              HasKey(params, k) /\ params[k] = get_parent(<<>>).params[k]

\* C28: after resolution, the dnu that was explicitly resolved for a star
\* is still the star's dnu or is recorded as the star's force.
C28_ExplicitDnuKept ==
    Finished /\ ValidInput(p_in) =>
        /\ p_err = "none"
        /\ \A i \in Positions(p_in) :
              (OccursOnce(Requested(p_in)[1], i) /\ ExpectedDnu(p_in, i) # <<>>) =>
                  /\ HasKey(params, StarAt(p_in, i))
                  /\ \/ /\ HasKey(params[StarAt(p_in, i)], "dnu")
                        /\ params[StarAt(p_in, i)]["dnu"] = ExpectedDnu(p_in, i)
                     \/ /\ HasKey(params[StarAt(p_in, i)], "force")
                        /\ params[StarAt(p_in, i)]["force"] = ExpectedDnu(p_in, i)

\* C29: the stars with a per-star configuration are exactly the stars of
\* the star list that was assigned last.
C29_EntriesAreLastStarList ==
    Finished /\ ValidInput(p_in) =>
        /\ p_err = "none"
        /\ DOMAIN params \cap StarNames = SeqSet(Requested(p_in)[1]) \cap StarNames

\* C30: every name check_cli reads from args for self.override is a dest
\* of the parser and a parameter of the defaults, so check_cli raises no
\* AttributeError or KeyError.
C30_OverrideNamesDeclared ==
    Finished /\ CommandLine(p_in) =>
        /\ SeqSet(OverrideNames) \subseteq ParserDests
        /\ SeqSet(OverrideNames) \subseteq DOMAIN params
        /\ p_err \notin {"AttributeError", "KeyError"}

(***************************************************************************)
(* Specifications                                                          *)
(***************************************************************************)
Init == PInit /\ MeIdle /\ RmIdle /\ StIdle /\ ScIdle /\ BdIdle /\ ArIdle /\ AiIdle /\ SvIdle
Next == Parameters__init__
Spec == Init /\ [][Next]_vars
InitPeaks == MeInit /\ RmIdle /\ StIdle /\ ScIdle /\ PIdle /\ BdIdle /\ ArIdle /\ AiIdle /\ SvIdle
NextPeaks == MaxElements
SpecPeaks == InitPeaks /\ [][NextPeaks]_vars

InitReturnMax == RmInit /\ MeIdle /\ StIdle /\ ScIdle /\ PIdle /\ BdIdle /\ ArIdle /\ AiIdle /\ SvIdle
NextReturnMax == ReturnMax
SpecReturnMax == InitReturnMax /\ [][NextReturnMax]_vars

InitSort == StInit /\ MeIdle /\ RmIdle /\ ScIdle /\ PIdle /\ BdIdle /\ ArIdle /\ AiIdle /\ SvIdle
NextSort == SortTable
SpecSort == InitSort /\ [][NextSort]_vars

InitScrape == ScInit /\ StIdle /\ MeIdle /\ RmIdle /\ PIdle /\ BdIdle /\ ArIdle /\ AiIdle /\ SvIdle
NextScrape == Scrape
SpecScrape == InitScrape /\ [][NextScrape]_vars

InitBin == BdInit /\ MeIdle /\ RmIdle /\ StIdle /\ ScIdle /\ PIdle /\ ArIdle /\ AiIdle /\ SvIdle
NextBin == BinData
SpecBin == InitBin /\ [][NextBin]_vars

InitDegenerate == DegenerateCalls /\ StIdle /\ ScIdle /\ PIdle /\ ArIdle /\ AiIdle /\ SvIdle
NextDegenerate == MaxElements \/ ReturnMax \/ BinData
SpecDegenerate == InitDegenerate /\ [][NextDegenerate]_vars

InitArtifacts == ArInit /\ StIdle /\ ScIdle /\ MeIdle /\ RmIdle /\ BdIdle /\ PIdle /\ AiIdle /\ SvIdle
NextArtifacts == SaveEstimates \/ SaveParameters \/ ScrapeArtifacts
SpecArtifacts == InitArtifacts /\ [][NextArtifacts]_vars

InitAsk == AiInit /\ MeIdle /\ RmIdle /\ BdIdle /\ StIdle /\ ScIdle /\ PIdle /\ ArIdle /\ SvIdle
NextAsk == AskIntRead \/ AskIntGiveUp
SpecAsk == InitAsk /\ [][NextAsk]_vars

InitSave == SvInit /\ MeIdle /\ RmIdle /\ BdIdle /\ StIdle /\ ScIdle /\ PIdle /\ ArIdle /\ AiIdle
NextSave == SvFile \/ SvEstimates \/ SvParameters
SpecSave == InitSave /\ [][NextSave]_vars

====
